---- MODULE Spec2Model ----
(***************************************************************************)
(* Model of custom-attributes (src/main.js): registerAttribute, the        *)
(* MutationObserver callback mutationHandler, newAttribute, and the part   *)
(* of the host's DOM / MutationObserver facility that the code consumes    *)
(* (record queueing, transient observers of removed subtrees, batched      *)
(* delivery).  Callbacks of the user's CustomAttribute subclass are        *)
(* recorded in a log.                                                      *)
(***************************************************************************)
EXTENDS Integers, Sequences, FiniteSets, TLC

\* ---------------------------------------------------------------- universe
Root == "root"
Elems == {"e1", "e2"}
Nodes == {Root} \cup Elems
Names == {"x", "y"}
Values == {"1", "2"}
Null == "null"
None == "none"
RegIds == {1, 2}

\* Bound on the number of DOM mutations performed by the page's scripts.
MaxOps == 3

VARIABLES
  children,          \* DOM: node -> sequence of its child elements
  attr,              \* DOM: node -> attribute name -> value or Null
  rootIsElement,     \* whether the root passed to registerAttribute is an Element
  ops,               \* number of DOM mutations performed so far
  registries,        \* src/main.js:12, root -> [observer, attributes] or None
  nregs,             \* number of registerAttribute calls that created a closure
  regName,           \* per registration: name
  regClass,          \* per registration: the customAttribute class handed in
  regObserver,       \* per registration: the observer it observes with
  observedElements,  \* per registration: element -> instance id, 0 when absent
  nextInst,          \* per registration: id of the next constructed instance
  obsFilter,         \* per observer: options.attributeFilter
  obsChildList,      \* per observer: options.childList
  recordQueue,       \* per observer: pending MutationRecords
  transient,         \* per observer: removed subtree roots still observed
  errors,            \* number of console.error calls
  initial,           \* per registration: what the initial pass did
  startDom,          \* per registration: DOM when the pending batch started
  hist,              \* per registration: the last two reconciled batches
  counts,            \* per registration and element: callbacks invoked so far
  treeOps,           \* number of structural DOM mutations performed so far
  calls,             \* the names passed to registerAttribute, in call order
  lastCall,          \* the last registerAttribute call: its arguments, whether it threw
  solo               \* per registration: the same page observed by it alone

vars == <<children, attr, rootIsElement, ops, registries, nregs, regName,
          regClass, observedElements, nextInst, obsFilter, obsChildList,
          recordQueue, transient, errors, initial, startDom, hist, counts,
          regObserver, treeOps, calls, lastCall, solo>>

domVars == <<children, attr, rootIsElement>>
regVars == <<registries, nregs, regName, regClass, regObserver, observedElements,
             nextInst, obsFilter, obsChildList, errors, initial, startDom, hist,
             counts, calls, lastCall>>

\* ---------------------------------------------------------------- DOM tree
Range(s) == {s[i] : i \in 1..Len(s)}

ParentOf(ch, n) ==
  IF \E p \in Nodes : n \in Range(ch[p])
  THEN CHOOSE p \in Nodes : n \in Range(ch[p])
  ELSE None

RECURSIVE InclusiveAncestors(_, _)
InclusiveAncestors(ch, n) ==
  IF n = None THEN {} ELSE {n} \cup InclusiveAncestors(ch, ParentOf(ch, n))

\* Elements of a sibling list and below, in document (pre-)order.
RECURSIVE Flatten(_, _)
Flatten(ch, s) ==
  IF s = <<>> THEN <<>>
  ELSE <<Head(s)>> \o Flatten(ch, ch[Head(s)]) \o Flatten(ch, Tail(s))

\* node.querySelectorAll(`[${name}]`): descendants (never the node itself)
\* carrying the attribute, in document order.
querySelectorAll(n, name) ==
  SelectSeq(Flatten(children, children[n]), LAMBDA e : attr[e][name] # Null)

hasAttribute(n, name) == attr[n][name] # Null

getAttribute(n, name) == attr[n][name]

InRoot(ch, n) == Root \in InclusiveAncestors(ch, n)

RemoveFrom(s, e) == SelectSeq(s, LAMBDA c : c # e)

\* ------------------------------------------------- MutationObserver facility
\* Observers are named by the registration whose call constructed them
\* (src/main.js:68); the callback of observer o is o's mutationHandler.
\* A node is observed when an inclusive ancestor is the observed root
\* (options.subtree is always true, src/main.js:5) or carries a transient
\* registered observer.
Observes(o, n) ==
  /\ \E r \in 1..nregs : regObserver[r] = o
  /\ \E a \in InclusiveAncestors(children, n) : a = Root \/ a \in transient[o]

AttrRecord(e, n, old, new) ==
  [type |-> "attributes", target |-> e, attributeName |-> n, oldValue |-> old,
   removed |-> None, added |-> None, setValue |-> new]

ChildRecord(p, rem, add) ==
  [type |-> "childList", target |-> p, attributeName |-> None, oldValue |-> Null,
   removed |-> rem, added |-> add, setValue |-> Null]

\* Queueing that ignores options.attributeFilter.
QueueAttrUnfiltered(e, n, old, new) ==
  [o \in RegIds |->
     IF Observes(o, e)
     THEN Append(recordQueue[o], AttrRecord(e, n, old, new))
     ELSE recordQueue[o]]

\* Queue an attributes record to every interested observer.
QueueAttr(e, n, old, new) ==
  [o \in RegIds |->
     IF Observes(o, e) /\ n \in obsFilter[o]
     THEN Append(recordQueue[o], AttrRecord(e, n, old, new))
     ELSE recordQueue[o]]

\* ---------------------------------------------------------------- callbacks
Ev(k, host, inst, a1, a2, i) ==
  [kind |-> k, host |-> host, inst |-> inst, a1 |-> a1, a2 |-> a2, rec |-> i]

St(store, lg, next) == [store |-> store, log |-> lg, next |-> next]

\* src/main.js:130-134
newAttribute(st, name, element, i) ==
  St([st.store EXCEPT ![element] = st.next],
     Append(st.log, Ev("connected", element, st.next,
                       getAttribute(element, name), Null, i)),
     st.next + 1)

RECURSIVE newAttributeEach(_, _, _, _)
newAttributeEach(st, name, elems, i) ==
  IF elems = <<>> THEN st
  ELSE newAttributeEach(newAttribute(st, name, Head(elems), i), name, Tail(elems), i)

\* src/main.js:78-79 and 82-83
disconnectIfObserved(st, node, i) ==
  IF st.store[node] # 0
  THEN St(st.store,
          Append(st.log, Ev("disconnected", node, st.store[node], Null, Null, i)),
          st.next)
  ELSE st

RECURSIVE disconnectEach(_, _, _)
disconnectEach(st, elems, i) ==
  IF elems = <<>> THEN st
  ELSE disconnectEach(disconnectIfObserved(st, Head(elems), i), Tail(elems), i)

\* src/main.js:75-87
removedNodesBranch(st, name, rec, i) ==
  IF hasAttribute(rec.removed, name)
  THEN disconnectIfObserved(st, rec.removed, i)
  ELSE disconnectEach(st, querySelectorAll(rec.removed, name), i)

\* src/main.js:92-102
addedNodesBranch(st, name, rec, i) ==
  IF hasAttribute(rec.added, name)
  THEN newAttribute(st, name, rec.added, i)
  ELSE newAttributeEach(st, name, querySelectorAll(rec.added, name), i)

\* The change branch with the arguments of changedCallback exchanged.
attributesBranchSwapped(st, name, rec, i) ==
  IF ~(rec.target # Root \/ rootIsElement) THEN st
  ELSE
    LET newValue == getAttribute(rec.target, name)
        oldValue == rec.oldValue
    IN IF oldValue = Null
       THEN newAttribute(st, name, rec.target, i)
       ELSE IF newValue = Null /\ st.store[rec.target] # 0
       THEN St([st.store EXCEPT ![rec.target] = 0],
               Append(st.log, Ev("disconnected", rec.target, st.store[rec.target],
                                 Null, Null, i)),
               st.next)
       ELSE IF newValue # rec.oldValue /\ st.store[rec.target] # 0
       THEN St(st.store,
               Append(st.log, Ev("changed", rec.target, st.store[rec.target],
                                 rec.oldValue, newValue, i)),
               st.next)
       ELSE st

\* The change branch without its observedElements.has guard.
attributesBranchUnguarded(st, name, rec, i) ==
  IF ~(rec.target # Root \/ rootIsElement) THEN st
  ELSE
    LET newValue == getAttribute(rec.target, name)
        oldValue == rec.oldValue
    IN IF oldValue = Null
       THEN newAttribute(st, name, rec.target, i)
       ELSE IF newValue = Null /\ st.store[rec.target] # 0
       THEN St([st.store EXCEPT ![rec.target] = 0],
               Append(st.log, Ev("disconnected", rec.target, st.store[rec.target],
                                 Null, Null, i)),
               st.next)
       ELSE IF newValue # rec.oldValue
       THEN St(st.store,
               Append(st.log, Ev("changed", rec.target, st.store[rec.target],
                                 newValue, rec.oldValue, i)),
               st.next)
       ELSE st

\* src/main.js:106-126
attributesBranch(st, name, rec, i) ==
  IF ~(rec.target # Root \/ rootIsElement) THEN st
  ELSE
    LET newValue == getAttribute(rec.target, name)
        oldValue == rec.oldValue
    IN IF oldValue = Null
       THEN newAttribute(st, name, rec.target, i)
       ELSE IF newValue = Null /\ st.store[rec.target] # 0
       THEN St([st.store EXCEPT ![rec.target] = 0],
               Append(st.log, Ev("disconnected", rec.target, st.store[rec.target],
                                 Null, Null, i)),
               st.next)
       ELSE IF newValue # rec.oldValue /\ st.store[rec.target] # 0
       THEN St(st.store,
               Append(st.log, Ev("changed", rec.target, st.store[rec.target],
                                 newValue, rec.oldValue, i)),
               st.next)
       ELSE st

\* src/main.js:71-128: the loop over mutationList, from record i on.
RECURSIVE mutationHandlerFrom(_, _, _, _)
mutationHandlerFrom(st, name, mutationList, i) ==
  IF i > Len(mutationList) THEN st
  ELSE
    LET record == mutationList[i]
    IN IF record.type = "childList" /\ record.removed # None
       THEN removedNodesBranch(st, name, record, i)
       ELSE IF record.type = "childList" /\ record.added # None
       THEN addedNodesBranch(st, name, record, i)
       ELSE IF record.type = "attributes"
       THEN mutationHandlerFrom(attributesBranch(st, name, record, i), name,
                                mutationList, i + 1)
       ELSE mutationHandlerFrom(st, name, mutationList, i + 1)

mutationHandler(r, mutationList) ==
  mutationHandlerFrom(St(observedElements[r], <<>>, nextInst[r]), regName[r],
                      mutationList, 1)

\* The initial pass with querySelector in place of querySelectorAll: only the
\* first matching element is connected.
initialPassFirstOnly(name, childList) ==
  LET st0 == St([n \in Nodes |-> 0], <<>>, 1)
      found == querySelectorAll(Root, name)
  IN IF childList
     THEN newAttributeEach(st0, name, IF found = <<>> THEN <<>> ELSE <<Head(found)>>, 0)
     ELSE IF rootIsElement
     THEN newAttribute(st0, name, Root, 0)
     ELSE st0

\* src/main.js:139-148
initialPass(name, childList) ==
  LET st0 == St([n \in Nodes |-> 0], <<>>, 1)
  IN IF childList
     THEN newAttributeEach(st0, name, querySelectorAll(Root, name), 0)
     ELSE IF rootIsElement
     THEN newAttribute(st0, name, Root, 0)
     ELSE st0

\* ---------------------------------------------------------------- snapshots
DomSnap == [attr |-> attr, inRoot |-> [n \in Nodes |-> InRoot(children, n)]]

\* What one run of the handler or of the initial pass invoked, per element.
CountEv(lg, k, e) == Cardinality({i \in 1..Len(lg) : lg[i].kind = k /\ lg[i].host = e})

AddCounts(c, lg) ==
  [e \in Nodes |-> [connected |-> c[e].connected + CountEv(lg, "connected", e),
                    changed |-> c[e].changed + CountEv(lg, "changed", e),
                    disconnected |-> c[e].disconnected + CountEv(lg, "disconnected", e)]]

ZeroCounts == [e \in Nodes |-> [connected |-> 0, changed |-> 0, disconnected |-> 0]]

\* ---------------------------------------------------------------- one registration alone
\* For each registration, the page as it would be observed were that
\* registration the only one on the root: one observer constructed for it
\* (src/main.js:68) with attributeFilter [name] (src/main.js:53) and its
\* childList argument (src/main.js:137), its own store (src/main.js:50), and
\* its own record queue and transient observers.
SoloNew(name, childList, st) ==
  [name |-> name, childList |-> childList, queue |-> <<>>, transient |-> {},
   store |-> st.store, next |-> st.next,
   counts |-> AddCounts(ZeroCounts, st.log), logs |-> <<>>]

SoloObserves(r, n) ==
  /\ solo[r].name # None
  /\ \E a \in InclusiveAncestors(children, n) : a = Root \/ a \in solo[r].transient

SoloQueueAttr(e, n, old, new) ==
  [r \in RegIds |->
     IF SoloObserves(r, e) /\ n = solo[r].name
     THEN [solo[r] EXCEPT !.queue = Append(@, AttrRecord(e, n, old, new))]
     ELSE solo[r]]

SoloQueueRemoval(p, e) ==
  [r \in RegIds |->
     IF SoloObserves(r, p)
     THEN [solo[r] EXCEPT
             !.queue = IF solo[r].childList THEN Append(@, ChildRecord(p, e, None)) ELSE @,
             !.transient = @ \cup {e}]
     ELSE solo[r]]

SoloQueueAddition(s, p, e) ==
  [r \in RegIds |->
     IF SoloObserves(r, p) /\ solo[r].childList
     THEN [s[r] EXCEPT !.queue = Append(@, ChildRecord(p, None, e))]
     ELSE s[r]]

\* The observer's callback runs when it has records; its transient observers
\* go when it is notified.
SoloDeliver ==
  [r \in RegIds |->
     IF solo[r].queue = <<>> THEN solo[r]
     ELSE LET res == mutationHandlerFrom(St(solo[r].store, <<>>, solo[r].next),
                                         solo[r].name, solo[r].queue, 1)
          IN [solo[r] EXCEPT
                !.queue = <<>>, !.transient = {},
                !.store = res.store, !.next = res.next,
                !.counts = AddCounts(@, res.log),
                !.logs = <<res.log>> \o (IF @ = <<>> THEN <<>> ELSE <<@[1]>>)]]

\* ---------------------------------------------------------------- Init
\* The page of the test-suite: an element carrying the attribute and a
\* paragraph without it, both children of the root.
TestPage == [n \in Nodes |-> IF n = Root THEN <<"e1", "e2">> ELSE <<>>]

TestPageAttr ==
  [n \in Nodes |-> [a \in Names |-> IF n = "e1" /\ a = "x" THEN "1" ELSE Null]]

InitWith(ch, at, isElement) ==
  /\ children = ch
  /\ attr = at
  /\ rootIsElement = isElement
  /\ ops = 0
  /\ registries = [n \in {Root} |-> None]
  /\ nregs = 0
  /\ regName = [r \in RegIds |-> None]
  /\ regClass = [r \in RegIds |-> None]
  /\ regObserver = [r \in RegIds |-> 0]
  /\ observedElements = [r \in RegIds |-> [n \in Nodes |-> 0]]
  /\ nextInst = [r \in RegIds |-> 1]
  /\ obsFilter = [o \in RegIds |-> {}]
  /\ obsChildList = [o \in RegIds |-> FALSE]
  /\ recordQueue = [o \in RegIds |-> <<>>]
  /\ transient = [o \in RegIds |-> {}]
  /\ errors = 0
  /\ initial = [r \in RegIds |-> [done |-> FALSE, dom |-> DomSnap, log |-> <<>>]]
  /\ startDom = [r \in RegIds |-> DomSnap]
  /\ hist = [r \in RegIds |-> <<>>]
  /\ counts = [r \in RegIds |-> ZeroCounts]
  /\ treeOps = 0
  /\ calls = <<>>
  /\ lastCall = [childList |-> None, raised |-> FALSE]
  /\ solo = [r \in RegIds |-> SoloNew(None, FALSE, St([n \in Nodes |-> 0], <<>>, 1))]

Init == InitWith(TestPage, TestPageAttr, FALSE)

\* ---------------------------------------------------------------- DOM mutations
\* element.setAttribute(name, value)
SetAttribute(e, n, v) ==
  /\ ops < MaxOps
  /\ e # Root \/ rootIsElement
  /\ attr' = [attr EXCEPT ![e][n] = v]
  /\ recordQueue' = QueueAttr(e, n, attr[e][n], v)
  /\ solo' = SoloQueueAttr(e, n, attr[e][n], v)
  /\ ops' = ops + 1
  /\ UNCHANGED <<children, rootIsElement, transient, treeOps>>
  /\ UNCHANGED regVars

\* element.removeAttribute(name); no record when the attribute is absent.
RemoveAttribute(e, n) ==
  /\ ops < MaxOps
  /\ attr[e][n] # Null
  /\ attr' = [attr EXCEPT ![e][n] = Null]
  /\ recordQueue' = QueueAttr(e, n, attr[e][n], Null)
  /\ solo' = SoloQueueAttr(e, n, attr[e][n], Null)
  /\ ops' = ops + 1
  /\ UNCHANGED <<children, rootIsElement, transient, treeOps>>
  /\ UNCHANGED regVars

\* The DOM's "remove" of e from its parent p: a childList record on p for the
\* observers of p that asked for childList, and a transient registered
\* observer on e for every observer of p (all observe with subtree).
QueueRemoval(q, p, e) ==
  [o \in RegIds |->
     IF Observes(o, p) /\ obsChildList[o]
     THEN Append(q[o], ChildRecord(p, e, None))
     ELSE q[o]]

TransientAfterRemoval(p, e) ==
  [o \in RegIds |-> IF Observes(o, p) THEN transient[o] \cup {e} ELSE transient[o]]

\* element.remove()
Remove(e) ==
  /\ ops < MaxOps
  /\ ParentOf(children, e) # None
  /\ LET p == ParentOf(children, e)
     IN /\ children' = [children EXCEPT ![p] = RemoveFrom(@, e)]
        /\ recordQueue' = QueueRemoval(recordQueue, p, e)
        /\ transient' = TransientAfterRemoval(p, e)
        /\ solo' = SoloQueueRemoval(p, e)
  /\ ops' = ops + 1
  /\ treeOps' = treeOps + 1
  /\ UNCHANGED <<attr, rootIsElement>>
  /\ UNCHANGED regVars

\* parent.append(element): removes the element from its old parent first
\* (one record), then inserts it as the last child (a second record).
AppendChild(e, p) ==
  /\ ops < MaxOps
  /\ e \notin InclusiveAncestors(children, p)
  /\ LET old == ParentOf(children, e)
         q1 == IF old = None THEN recordQueue ELSE QueueRemoval(recordQueue, old, e)
     IN /\ children' = [n \in Nodes |->
                          IF n = p THEN Append(RemoveFrom(children[n], e), e)
                          ELSE RemoveFrom(children[n], e)]
        /\ recordQueue' =
             [o \in RegIds |->
                IF Observes(o, p) /\ obsChildList[o]
                THEN Append(q1[o], ChildRecord(p, None, e))
                ELSE q1[o]]
        /\ transient' = IF old = None THEN transient ELSE TransientAfterRemoval(old, e)
        /\ solo' = SoloQueueAddition(IF old = None THEN solo ELSE SoloQueueRemoval(old, e),
                                     p, e)
  /\ ops' = ops + 1
  /\ treeOps' = treeOps + 1
  /\ UNCHANGED <<attr, rootIsElement>>
  /\ UNCHANGED regVars

\* ---------------------------------------------------------------- registerAttribute
\* src/main.js:44-149
registerAttribute(name, customAttribute, childList) ==
  /\ nregs < Cardinality(RegIds)
  /\ calls' = Append(calls, name)
  /\ LET r == nregs + 1
         existingObserver == registries[Root]
     IN IF existingObserver # None /\ name \in existingObserver.attributes
        THEN /\ errors' = errors + 1
             /\ UNCHANGED <<registries, nregs, regName, regClass, regObserver,
                            observedElements, nextInst, obsFilter, obsChildList,
                            initial, startDom, hist, counts, recordQueue, transient,
                            solo>>
        ELSE
          LET o == IF existingObserver # None THEN existingObserver.observer ELSE r
              attributeFilter ==
                {name} \cup (IF existingObserver # None
                             THEN existingObserver.attributes ELSE {})
              st == initialPass(name, childList)
          IN /\ nregs' = r
             /\ regName' = [regName EXCEPT ![r] = name]
             /\ regClass' = [regClass EXCEPT ![r] = customAttribute]
             /\ regObserver' = [regObserver EXCEPT ![r] = o]
             /\ obsFilter' = [obsFilter EXCEPT ![o] = attributeFilter]
             /\ obsChildList' = [obsChildList EXCEPT ![o] = childList]
             /\ recordQueue' = [recordQueue EXCEPT ![o] = <<>>]
             /\ transient' = [transient EXCEPT ![o] = {}]
             /\ observedElements' = [observedElements EXCEPT ![r] = st.store]
             /\ nextInst' = [nextInst EXCEPT ![r] = st.next]
             /\ initial' = [initial EXCEPT ![r] =
                              [done |-> TRUE, dom |-> DomSnap, log |-> st.log]]
             /\ startDom' = [startDom EXCEPT ![r] = DomSnap]
             /\ counts' = [counts EXCEPT ![r] = AddCounts(ZeroCounts, st.log)]
             /\ solo' = [solo EXCEPT ![r] = SoloNew(name, childList, st)]
             /\ UNCHANGED <<registries, errors, hist>>
  /\ UNCHANGED <<children, attr, rootIsElement, ops, treeOps>>

\* ---------------------------------------------------------------- delivery
\* The host notifies the mutation observers: every observer with pending
\* records has its callback invoked once with all of them, and the transient
\* registered observers are dropped.
Batch(r, res) ==
  [start |-> startDom[r], startStore |-> observedElements[r],
   end |-> DomSnap, endStore |-> res.store,
   records |-> recordQueue[r], log |-> res.log]

Deliver ==
  /\ \E o \in RegIds : recordQueue[o] # <<>>
  /\ LET res == [r \in RegIds |->
                   IF recordQueue[r] # <<>>
                   THEN mutationHandler(r, recordQueue[r])
                   ELSE St(observedElements[r], <<>>, nextInst[r])]
     IN /\ observedElements' = [r \in RegIds |-> res[r].store]
        /\ nextInst' = [r \in RegIds |-> res[r].next]
        /\ counts' = [r \in RegIds |-> AddCounts(counts[r], res[r].log)]
        /\ hist' = [r \in RegIds |->
                      IF recordQueue[r] # <<>>
                      THEN <<Batch(r, res[r])>> \o
                           (IF hist[r] = <<>> THEN <<>> ELSE <<hist[r][1]>>)
                      ELSE hist[r]]
        /\ startDom' = [r \in RegIds |->
                          IF recordQueue[r] # <<>> THEN DomSnap ELSE startDom[r]]
  /\ recordQueue' = [o \in RegIds |-> <<>>]
  /\ transient' = [o \in RegIds |-> {}]
  /\ solo' = SoloDeliver
  /\ UNCHANGED <<children, attr, rootIsElement, ops, registries, nregs, regName,
                 regClass, regObserver, obsFilter, obsChildList, errors, initial,
                 treeOps, calls, lastCall>>

\* ---------------------------------------------------------------- specification
\* The arguments of a call and whether it threw; src/main.js has no throw.
Call(childList) == [childList |-> childList, raised |-> FALSE]

Register ==
  /\ nregs = 0
  /\ registerAttribute("x", "A", TRUE)
  /\ lastCall' = Call("true")

Next ==
  \/ \E e \in Elems, v \in Values : SetAttribute(e, "x", v)
  \/ \E e \in Elems : RemoveAttribute(e, "x")
  \/ \E e \in Elems : Remove(e)
  \/ \E e \in Elems, p \in Nodes : AppendChild(e, p)
  \/ Register
  \/ Deliver

Spec == Init /\ [][Next]_vars

\* ---------------------------------------------------------------- vocabulary of the claims
EventsFor(lg, e) == SelectSeq(lg, LAMBDA ev : ev.host = e)

Kinds(lg) == [i \in 1..Len(lg) |-> lg[i].kind]

\* A callback as the user's class sees it: kind and arguments.
Calls(lg) == [i \in 1..Len(lg) |-> <<lg[i].kind, lg[i].a1, lg[i].a2>>]

HasBatch(r) == hist[r] # <<>>

LastBatch(r) == hist[r][1]

PresentAtStart(b, e, name) == b.start.inRoot[e] /\ b.start.attr[e][name] # Null

PresentAtEnd(b, e, name) == b.end.inRoot[e] /\ b.end.attr[e][name] # Null

\* Tracked: inside the root, carrying the attribute, with an instance in the store.
TrackedAtStart(b, e, name) == PresentAtStart(b, e, name) /\ b.startStore[e] # 0

OnlyAttributeRecords(b) == \A i \in 1..Len(b.records) : b.records[i].type = "attributes"

RecordsOn(b, e) ==
  {i \in 1..Len(b.records) :
     \/ b.records[i].type = "attributes" /\ b.records[i].target = e
     \/ b.records[i].removed = e
     \/ b.records[i].added = e}

\* The one callback sequence the net effect of a batch on an element asks for.
NetEffect(b, e, name) ==
  IF ~PresentAtStart(b, e, name) /\ PresentAtEnd(b, e, name)
  THEN << <<"connected", b.end.attr[e][name], Null>> >>
  ELSE IF PresentAtStart(b, e, name) /\ ~PresentAtEnd(b, e, name)
  THEN << <<"disconnected", Null, Null>> >>
  ELSE IF /\ PresentAtStart(b, e, name) /\ PresentAtEnd(b, e, name)
          /\ b.end.attr[e][name] # b.start.attr[e][name]
  THEN << <<"changed", b.end.attr[e][name], b.start.attr[e][name]>> >>
  ELSE <<>>

\* ---------------------------------------------------------------- C1
\* The element itself was taken out of its parent and put back under the root
\* within the batch, and no record of the batch concerns its attribute.
MovedInBatch(b, e) ==
  /\ \E i \in 1..Len(b.records) : b.records[i].removed = e
  /\ \E i \in 1..Len(b.records) : b.records[i].added = e
  /\ \A i \in 1..Len(b.records) :
       ~(b.records[i].type = "attributes" /\ b.records[i].target = e)
  /\ b.end.inRoot[e]
  /\ b.end.attr[e] = b.start.attr[e]

\* C1: a tracked element that is removed and re-inserted under the root within
\* one delivered batch, its attribute unchanged, gets neither a
\* disconnectedCallback nor a connectedCallback from that batch.
C1_MoveFiresNothing ==
  \A e \in Elems :
    (HasBatch(1) /\ TrackedAtStart(LastBatch(1), e, "x") /\ MovedInBatch(LastBatch(1), e))
      => /\ CountEv(LastBatch(1).log, "connected", e) = 0
         /\ CountEv(LastBatch(1).log, "disconnected", e) = 0

\* ---------------------------------------------------------------- C2
\* C2: a tracked element removed from the root in one batch and re-appended in
\* the next one (its attribute untouched while it is removed, possibly set to
\* a new value in the batch of the re-append) gets exactly one
\* disconnectedCallback, then exactly one connectedCallback, and no
\* changedCallback.
C2_RemoveThenReaddLater ==
  \A e \in Elems :
    ( /\ Len(hist[1]) = 2
      /\ TrackedAtStart(hist[1][2], e, "x")
      /\ ~hist[1][2].end.inRoot[e]
      /\ \A i \in 1..Len(hist[1][2].records) :
           ~(hist[1][2].records[i].type = "attributes" /\ hist[1][2].records[i].target = e)
      /\ PresentAtEnd(hist[1][1], e, "x")
      /\ \A i \in 1..Len(hist[1][1].records) : hist[1][1].records[i].removed # e )
      => Kinds(EventsFor(hist[1][2].log \o hist[1][1].log, e))
           = <<"disconnected", "connected">>

\* ---------------------------------------------------------------- C3
\* C3: when only setAttribute/removeAttribute have happened and every batch
\* has been reconciled, connected - disconnected is 1 for an element carrying
\* the attribute and 0 for one that does not.
C3_ConnectedMinusDisconnected ==
  \A e \in Elems :
    (nregs = 1 /\ treeOps = 0 /\ recordQueue[1] = <<>>)
      => counts[1][e].connected - counts[1][e].disconnected
           = (IF attr[e]["x"] # Null THEN 1 ELSE 0)

\* ---------------------------------------------------------------- C4
\* C4: for a tracked element carrying the attribute at the start and at the
\* end of a batch of attribute records, the batch invokes exactly one
\* changedCallback(valueAtEnd, valueAtStart) when the values differ, and
\* nothing when they are equal.
C4_ChangeIsNetOfBatch ==
  \A e \in Elems :
    ( /\ HasBatch(1)
      /\ OnlyAttributeRecords(LastBatch(1))
      /\ TrackedAtStart(LastBatch(1), e, "x")
      /\ PresentAtEnd(LastBatch(1), e, "x") )
      => Calls(EventsFor(LastBatch(1).log, e)) = NetEffect(LastBatch(1), e, "x")

\* ---------------------------------------------------------------- C5
\* C5: one batch (here: of attribute records) invokes at most one callback
\* per element, the one its presence and value at batch start versus batch
\* end ask for; an attribute added and removed again within the batch on an
\* untracked element yields none.
C5_OneCallbackPerElementPerBatch ==
  \A e \in Elems :
    ( /\ HasBatch(1)
      /\ OnlyAttributeRecords(LastBatch(1))
      /\ LastBatch(1).start.inRoot[e]
      /\ (LastBatch(1).startStore[e] # 0) = PresentAtStart(LastBatch(1), e, "x") )
      => /\ Len(EventsFor(LastBatch(1).log, e)) <= 1
         /\ Calls(EventsFor(LastBatch(1).log, e)) = NetEffect(LastBatch(1), e, "x")

\* ---------------------------------------------------------------- C6
\* C6: no changedCallback is invoked for a record that stems from setting the
\* attribute to the value it already had.
C6_SameValueSetNeverChanges ==
  HasBatch(1) =>
    \A i \in 1..Len(LastBatch(1).log) :
      LET ev == LastBatch(1).log[i]
      IN ev.kind = "changed"
           => LastBatch(1).records[ev.rec].setValue # LastBatch(1).records[ev.rec].oldValue

\* ---------------------------------------------------------------- C7
\* A page that calls registerAttribute a second time with the name it used
\* the first time, and another class.
RegisterAgain ==
  /\ nregs = 1
  /\ Len(calls) = 1
  /\ registerAttribute("x", "B", TRUE)
  /\ lastCall' = Call("true")

NextDup ==
  \/ \E e \in Elems, v \in Values : SetAttribute(e, "x", v)
  \/ \E e \in Elems : RemoveAttribute(e, "x")
  \/ \E e \in Elems : Remove(e)
  \/ \E e \in Elems, p \in Nodes : AppendChild(e, p)
  \/ Register
  \/ RegisterAgain
  \/ Deliver

SpecDup == Init /\ [][NextDup]_vars

\* C7: a second registerAttribute with a name already registered on the root
\* emits exactly one diagnostic and installs nothing: no further closure or
\* observer, no initial pass, no connectedCallback of the second class.
C7_DuplicateInstallsNothing ==
  (Len(calls) = 2 /\ calls[1] = calls[2])
    => /\ errors = 1
       /\ nregs = 1
       /\ ~initial[2].done
       /\ \A e \in Nodes : counts[2][e].connected = 0

\* ---------------------------------------------------------------- C8
MatchingAtRegistration(r) ==
  {e \in Elems : initial[r].dom.inRoot[e] /\ initial[r].dom.attr[e][regName[r]] # Null}

\* C8: registering with childList = true against a root with N elements
\* carrying the attribute invokes connectedCallback exactly once per such
\* element, with its current value, and nothing else; the calls have been
\* made when registerAttribute returns, before any batch is delivered.
C8_InitialPassConnectsEach ==
  initial[1].done =>
    /\ Len(initial[1].log) = Cardinality(MatchingAtRegistration(1))
    /\ \A i \in 1..Len(initial[1].log) :
         /\ initial[1].log[i].kind = "connected"
         /\ initial[1].log[i].host \in MatchingAtRegistration(1)
         /\ initial[1].log[i].a1 = initial[1].dom.attr[initial[1].log[i].host]["x"]
    /\ \A e \in MatchingAtRegistration(1) : CountEv(initial[1].log, "connected", e) = 1
    /\ ~HasBatch(1) =>
         \A e \in Elems :
           counts[1][e].connected = (IF e \in MatchingAtRegistration(1) THEN 1 ELSE 0)

C8_Witness ==
  /\ initial[1].done
  /\ ~HasBatch(1)
  /\ MatchingAtRegistration(1) = Elems
  /\ initial[1].dom.attr["e1"]["x"] # initial[1].dom.attr["e2"]["x"]
  /\ counts[1]["e1"].connected = 1
  /\ counts[1]["e2"].connected = 1

\* ---------------------------------------------------------------- C9
\* The batch is one setAttribute on e that changes the value from v1 to v2.
SingleChangingSet(b, e) ==
  /\ Len(b.records) = 1
  /\ b.records[1].type = "attributes"
  /\ b.records[1].target = e
  /\ b.records[1].oldValue # Null
  /\ b.records[1].setValue # Null
  /\ b.records[1].setValue # b.records[1].oldValue

\* C9: a batch that is a single setAttribute changing a tracked element's
\* attribute from v1 to v2 invokes exactly changedCallback(v2, v1) on the
\* instance bound to the element, and no other callback.
C9_SingleSetChanges ==
  \A e \in Elems :
    (HasBatch(1) /\ LastBatch(1).startStore[e] # 0 /\ SingleChangingSet(LastBatch(1), e))
      => LastBatch(1).log =
           << Ev("changed", e, LastBatch(1).startStore[e],
                 LastBatch(1).records[1].setValue, LastBatch(1).records[1].oldValue, 1) >>

C9_Witness ==
  /\ HasBatch(1)
  /\ LastBatch(1).startStore["e1"] # 0
  /\ SingleChangingSet(LastBatch(1), "e1")
  /\ LastBatch(1).records[1].oldValue = "1"
  /\ LastBatch(1).records[1].setValue = "2"
  /\ counts[1]["e1"].changed = 1

\* ---------------------------------------------------------------- C10
\* C10: a tracked element that leaves net-presence in a batch, because its
\* attribute was removed or because it was removed from the root and not
\* re-inserted, gets exactly one disconnectedCallback, on its instance.
AttributeRemoved(b, e, name) == b.end.inRoot[e] /\ b.end.attr[e][name] = Null

RemovedWithAttribute(b, e, name) == ~b.end.inRoot[e] /\ b.end.attr[e][name] # Null

C10_LeavingDisconnectsOnce ==
  \A e \in Elems :
    ( /\ HasBatch(1)
      /\ TrackedAtStart(LastBatch(1), e, "x")
      /\ \/ AttributeRemoved(LastBatch(1), e, "x")
         \/ RemovedWithAttribute(LastBatch(1), e, "x") )
      => /\ CountEv(LastBatch(1).log, "disconnected", e) = 1
         /\ \A i \in 1..Len(LastBatch(1).log) :
              (LastBatch(1).log[i].kind = "disconnected" /\ LastBatch(1).log[i].host = e)
                => LastBatch(1).log[i].inst = LastBatch(1).startStore[e]

\* ---------------------------------------------------------------- C11
\* The connectedCallback invocations of a batch for one element.
ConnectsFor(b, e) == SelectSeq(b.log, LAMBDA ev : ev.host = e /\ ev.kind = "connected")

\* C11: an element under the root whose attribute is added in a batch (absent
\* at batch start, present at batch end) gets exactly one connectedCallback
\* from that batch, with the value at the end of the batch, on a new instance
\* that is the one the store then holds for it.
C11_EnteringConnectsOnce ==
  \A e \in Elems :
    ( /\ HasBatch(1)
      /\ OnlyAttributeRecords(LastBatch(1))
      /\ LastBatch(1).start.inRoot[e]
      /\ LastBatch(1).startStore[e] = 0
      /\ ~PresentAtStart(LastBatch(1), e, "x")
      /\ PresentAtEnd(LastBatch(1), e, "x") )
      => /\ Len(ConnectsFor(LastBatch(1), e)) = 1
         /\ ConnectsFor(LastBatch(1), e)[1].a1 = LastBatch(1).end.attr[e]["x"]
         /\ ConnectsFor(LastBatch(1), e)[1].inst = LastBatch(1).endStore[e]

\* ---------------------------------------------------------------- argument kinds
\* What a caller may pass as childList: the two booleans, a truthy non-boolean
\* and a falsy one.  The code uses the argument as a condition
\* (src/main.js:140) and as the childList option of observe (src/main.js:137);
\* both take its truthiness.
ArgValues == {"true", "false", "yes", "0"}

IsBoolean(arg) == arg \in {"true", "false"}

ToBoolean(arg) == arg \in {"true", "yes"}

RegisterWith(arg) ==
  /\ nregs = 0
  /\ registerAttribute("x", "A", ToBoolean(arg))
  /\ lastCall' = Call(arg)

\* The test page, with a document or an element as the root handed in.
InitArgs == \E isElement \in BOOLEAN : InitWith(TestPage, TestPageAttr, isElement)

NextArgs ==
  \/ \E e \in Nodes, v \in Values : SetAttribute(e, "x", v)
  \/ \E e \in Nodes : RemoveAttribute(e, "x")
  \/ \E e \in Elems : Remove(e)
  \/ \E e \in Elems, p \in Nodes : AppendChild(e, p)
  \/ \E arg \in ArgValues : RegisterWith(arg)
  \/ Deliver

SpecArgs == InitArgs /\ [][NextArgs]_vars

\* ---------------------------------------------------------------- C12
\* C12: a registration made with childList = false never invokes a callback
\* for a descendant of the root, neither in the initial pass nor in a batch.
C12_RootOnlyWhenChildListFalse ==
  (initial[1].done /\ lastCall.childList = "false")
    => /\ \A i \in 1..Len(initial[1].log) : initial[1].log[i].host = Root
       /\ \A k \in 1..Len(hist[1]) :
            \A i \in 1..Len(hist[1][k].log) : hist[1][k].log[i].host = Root

\* ---------------------------------------------------------------- C13
\* C13: with childList = false, registerAttribute invokes one
\* connectedCallback for the root, with its value, when the root is an element
\* carrying the attribute; otherwise it throws and invokes no callback.
C13_RootOnlyInitialPass ==
  (lastCall.childList = "false")
    => IF rootIsElement /\ initial[1].dom.attr[Root]["x"] # Null
       THEN /\ ~lastCall.raised
            /\ Calls(initial[1].log)
                 = << <<"connected", initial[1].dom.attr[Root]["x"], Null>> >>
            /\ initial[1].log[1].host = Root
       ELSE /\ lastCall.raised
            /\ initial[1].log = <<>>

\* ---------------------------------------------------------------- C14
\* C14: a call whose childList argument is not a boolean throws before any
\* observer is created or started and before any callback; a call with
\* well-typed arguments does not throw.
C14_WrongTypeRaises ==
  (lastCall.childList # None)
    => IF IsBoolean(lastCall.childList)
       THEN ~lastCall.raised
       ELSE /\ lastCall.raised
            /\ nregs = 0
            /\ \A o \in RegIds : obsFilter[o] = {}
            /\ \A r \in RegIds : initial[r].log = <<>>

\* ---------------------------------------------------------------- C20
\* C20: with childList = true and a root element that carries the attribute
\* at registration, the initial pass invokes one connectedCallback for the
\* root, with the root's value.
C20_InitialPassIncludesRoot ==
  ( /\ initial[1].done
    /\ lastCall.childList = "true"
    /\ rootIsElement
    /\ initial[1].dom.attr[Root]["x"] # Null )
    => /\ CountEv(initial[1].log, "connected", Root) = 1
       /\ \A i \in 1..Len(initial[1].log) :
            initial[1].log[i].host = Root
              => initial[1].log[i].a1 = initial[1].dom.attr[Root]["x"]

\* ---------------------------------------------------------------- nested page
\* A page whose tracked element contains another element carrying the
\* attribute.
NestedPage ==
  [n \in Nodes |-> IF n = Root THEN <<"e1">> ELSE IF n = "e1" THEN <<"e2">> ELSE <<>>]

NestedPageAttr ==
  [n \in Nodes |-> [a \in Names |-> IF n = "e1" THEN "1" ELSE IF n = "e2" THEN "2" ELSE Null]]

InitNested == InitWith(NestedPage, NestedPageAttr, FALSE)

SpecNested == InitNested /\ [][Next]_vars

SingleRemoval(b) ==
  Len(b.records) = 1 /\ b.records[1].type = "childList" /\ b.records[1].removed # None

SingleAddition(b) ==
  Len(b.records) = 1 /\ b.records[1].type = "childList" /\ b.records[1].added # None

\* ---------------------------------------------------------------- C15
\* C15: when a batch is the removal of one subtree, every tracked element that
\* left the root with it (the removed node and each descendant carrying the
\* attribute) gets exactly one disconnectedCallback and is no longer in the
\* store.
C15_RemovalSweep ==
  \A e \in Elems :
    ( /\ HasBatch(1)
      /\ SingleRemoval(LastBatch(1))
      /\ TrackedAtStart(LastBatch(1), e, "x")
      /\ RemovedWithAttribute(LastBatch(1), e, "x") )
      => /\ CountEv(LastBatch(1).log, "disconnected", e) = 1
         /\ LastBatch(1).endStore[e] = 0

\* ---------------------------------------------------------------- C16
\* C16: when a batch is the insertion of one subtree under the root, every
\* element that entered the root with it and carries the attribute (the
\* inserted node and each descendant) gets exactly one connectedCallback, with
\* its current value.
C16_AdditionSweep ==
  \A e \in Elems :
    ( /\ HasBatch(1)
      /\ SingleAddition(LastBatch(1))
      /\ ~LastBatch(1).start.inRoot[e]
      /\ PresentAtEnd(LastBatch(1), e, "x") )
      => /\ Len(ConnectsFor(LastBatch(1), e)) = 1
         /\ ConnectsFor(LastBatch(1), e)[1].a1 = LastBatch(1).end.attr[e]["x"]

\* ---------------------------------------------------------------- C17
\* The batch is a structural record naming a, followed by one attributes
\* record on another element b that is not inside a.
StructuralThenOther(bt, a, b) ==
  /\ Len(bt.records) = 2
  /\ bt.records[1].type = "childList"
  /\ a \in {bt.records[1].removed, bt.records[1].added}
  /\ bt.records[2].type = "attributes"
  /\ bt.records[2].target = b
  /\ b # a
  /\ bt.start.inRoot[b]
  /\ bt.end.inRoot[b]
  /\ (bt.startStore[b] # 0) = PresentAtStart(bt, b, "x")

\* C17: when a batch holds a structural record about one element followed by
\* a record about another element, the other element still gets the callback
\* its own net effect asks for.
C17_RecordsAfterStructuralCount ==
  \A a \in Elems, b \in Elems :
    (HasBatch(1) /\ StructuralThenOther(LastBatch(1), a, b))
      => Calls(EventsFor(LastBatch(1).log, b)) = NetEffect(LastBatch(1), b, "x")

\* ---------------------------------------------------------------- C18
Disconnected(lg) == {lg[i].inst : i \in {j \in 1..Len(lg) : lg[j].kind = "disconnected"}}

\* C18: an instance whose disconnectedCallback was invoked in a batch is not
\* in the store after that batch, and gets no disconnectedCallback or
\* changedCallback in the next batch.
C18_DestroyedOnce ==
  /\ HasBatch(1) =>
       \A n \in Nodes : LastBatch(1).endStore[n] \notin Disconnected(LastBatch(1).log)
  /\ Len(hist[1]) = 2 =>
       \A i \in 1..Len(hist[1][1].log) :
         hist[1][1].log[i].kind \in {"disconnected", "changed"}
           => hist[1][1].log[i].inst \notin Disconnected(hist[1][2].log)

\* ---------------------------------------------------------------- C19
\* C19: once every pending batch is reconciled, the store holds an instance
\* for an element exactly when the element is inside the root and carries the
\* attribute.
C19_StoreConsistent ==
  (nregs = 1 /\ recordQueue[1] = <<>>)
    => \A e \in Elems :
         (observedElements[1][e] # 0) <=> (InRoot(children, e) /\ attr[e]["x"] # Null)

\* ---------------------------------------------------------------- C21
\* The events of a batch on element e, from records before record i, that
\* write the store: newAttribute sets the entry (src/main.js:133), the
\* deleted branch deletes it (src/main.js:117).
StoreWrites(b, e, i) ==
  {k \in 1..Len(b.log) :
     /\ b.log[k].host = e
     /\ b.log[k].rec < i
     /\ \/ b.log[k].kind = "connected"
        \/ b.log[k].kind = "disconnected" /\ b.records[b.log[k].rec].type = "attributes"}

\* The instance the store holds for e when record i of the batch is reached.
StoreAt(b, e, i) ==
  IF StoreWrites(b, e, i) = {} THEN b.startStore[e]
  ELSE LET k == CHOOSE m \in StoreWrites(b, e, i) : \A n \in StoreWrites(b, e, i) : n <= m
       IN IF b.log[k].kind = "connected" THEN b.log[k].inst ELSE 0

\* Record i is reached by the handler's loop.
Reached(b, i) == \A j \in 1..(i - 1) : b.records[j].type = "attributes"

StrayRecord(b, i) ==
  /\ Reached(b, i)
  /\ b.records[i].type = "attributes"
  /\ b.records[i].oldValue # Null
  /\ StoreAt(b, b.records[i].target, i) = 0

\* The store after the last record, read back from the log, is the store the
\* handler left.
StoreAtAgreesWithStore ==
  \A k \in 1..Len(hist[1]) :
    \A e \in Nodes : StoreAt(hist[1][k], e, Len(hist[1][k].records) + 1) = hist[1][k].endStore[e]

\* C21: an attributes record with a non-null old value whose target has no
\* instance in the store when the record is handled invokes no callback (in
\* particular none on a missing instance) and leaves the store as it was.
C21_StrayRecordIgnored ==
  /\ StoreAtAgreesWithStore
  /\ \A k \in 1..Len(hist[1]) :
       \A i \in 1..Len(hist[1][k].records) :
         StrayRecord(hist[1][k], i)
           => /\ \A m \in 1..Len(hist[1][k].log) : hist[1][k].log[m].rec # i
              /\ \A e \in Nodes : StoreAt(hist[1][k], e, i + 1) = StoreAt(hist[1][k], e, i)
              /\ Len(hist[1][k].records) = 1 => hist[1][k].endStore = hist[1][k].startStore

\* A record on an element whose instance the same batch has just deleted.
C21_Witness ==
  /\ HasBatch(1)
  /\ Len(LastBatch(1).records) = 2
  /\ StrayRecord(LastBatch(1), 2)
  /\ LastBatch(1).startStore[LastBatch(1).records[2].target] # 0

\* ---------------------------------------------------------------- C22
\* A disconnectedCallback on instance p among the events k1..k2 of the log.
DisconnectedBetween(lg, p, k1, k2) ==
  \E m \in k1..k2 : lg[m].kind = "disconnected" /\ lg[m].inst = p

\* C22: connectedCallback is never invoked for an element whose instance is
\* live.  Within a batch, between two connectedCallbacks for one element the
\* earlier instance gets a disconnectedCallback; and in the first batch after
\* registration, an element connected by the initial pass is connected again
\* only after a disconnectedCallback on that instance.
C22_NoConnectOverLiveInstance ==
  /\ \A b \in 1..Len(hist[1]) :
       \A k1 \in 1..Len(hist[1][b].log), k2 \in 1..Len(hist[1][b].log) :
         ( /\ k1 < k2
           /\ hist[1][b].log[k1].kind = "connected"
           /\ hist[1][b].log[k2].kind = "connected"
           /\ hist[1][b].log[k1].host = hist[1][b].log[k2].host )
           => DisconnectedBetween(hist[1][b].log, hist[1][b].log[k1].inst, k1, k2)
  /\ Len(hist[1]) = 1 =>
       \A k \in 1..Len(hist[1][1].log) :
         ( /\ hist[1][1].log[k].kind = "connected"
           /\ hist[1][1].startStore[hist[1][1].log[k].host] # 0 )
           => DisconnectedBetween(hist[1][1].log,
                                  hist[1][1].startStore[hist[1][1].log[k].host], 1, k)

\* ---------------------------------------------------------------- two names on one root
\* registerAttribute(name, customAttribute) with the default root and
\* childList, once per name.
RegisterName(name) ==
  /\ name \notin Range(calls)
  /\ registerAttribute(name, "A", TRUE)
  /\ lastCall' = Call("true")

NextTwo ==
  \/ \E e \in Elems, n \in Names, v \in Values : SetAttribute(e, n, v)
  \/ \E e \in Elems, n \in Names : RemoveAttribute(e, n)
  \/ \E e \in Elems : Remove(e)
  \/ \E e \in Elems, p \in Nodes : AppendChild(e, p)
  \/ \E n \in Names : RegisterName(n)
  \/ Deliver

SpecTwo == Init /\ [][NextTwo]_vars

\* ---------------------------------------------------------------- C23
\* C23: with two names registered on one root, each registration receives the
\* records, invokes the callbacks (initial pass and every batch, in order,
\* with the same arguments and instances) and holds the store it would were it
\* the only registration; no record about the other name reaches it.
C23_RegistrationsIndependent ==
  \A r \in 1..nregs :
    /\ solo[r].name = regName[r]
    /\ recordQueue[regObserver[r]] = solo[r].queue
    /\ observedElements[r] = solo[r].store
    /\ nextInst[r] = solo[r].next
    /\ counts[r] = solo[r].counts
    /\ [k \in 1..Len(hist[r]) |-> hist[r][k].log] = solo[r].logs
    /\ \A k \in 1..Len(hist[r]) :
         \A i \in 1..Len(hist[r][k].records) :
           hist[r][k].records[i].type = "attributes"
             => hist[r][k].records[i].attributeName = regName[r]

\* Both names are registered, and one batch held a record for each of them
\* and made each registration invoke a callback.
C23_Witness ==
  /\ nregs = 2
  /\ regName[1] # regName[2]
  /\ \A r \in {1, 2} :
       /\ HasBatch(r)
       /\ LastBatch(r).log # <<>>
       /\ \E i \in 1..Len(LastBatch(r).records) : LastBatch(r).records[i].type = "attributes"
  /\ LastBatch(1).end = LastBatch(2).end

====
